---- MODULE Spec2Model ----
(***************************************************************************)
(* VKGL command scheduler (OpenGL::VKScheduler) and the backend buffer     *)
(* payload (OpenGL::VKBufferPayload).                                      *)
(*                                                                         *)
(* Threads: application (producer) threads calling submit, the scheduler   *)
(* worker thread running main_thread_entrypoint, and the thread that runs  *)
(* ~VKScheduler.  The ring buffer, the backend buffer manager, the frame   *)
(* graph and the vkgl_* assertion macros are not part of the translated    *)
(* sources; they are modelled from their documented contracts.             *)
(***************************************************************************)
EXTENDS Integers, Sequences, FiniteSets, TLC

VARIABLES
    m_terminating,              \* std::atomic<bool> m_terminating
    m_command_ring_buffer_ptr,  \* NULL, or [capacity, items] of the ring buffer
    m_scheduler_thread_ptr,     \* NULL, or the std::thread of the worker
    worker_pc,                  \* position of main_thread_entrypoint
    command_ptr,                \* the worker's local command_ptr (NULL when empty)
    dtor_pc,                    \* position of ~VKScheduler run by the scheduler's owner
    status,                     \* "running", or how the process was trapped
    next_seq,                   \* per producer: sequence number of its next command
    submits_left,               \* commands the application still gets queued
    now,                        \* the clock time markers are taken from
    frontend,                   \* per buffer id: creation marker of the live object
    recreations_left,           \* delete+create cycles the application still makes
    backend,                    \* backend buffer manager: set of mirrored payloads
    mgr_calls,                  \* manager calls made by the latest handler run
    frame_graph,                \* nodes handed to VKFrameGraph::add_node, in order
    dispatched,                 \* commands handed to process_command, in order
    timeouts_after_flag,        \* grab_with_timeout time-outs since the flag was set
    discarded,                  \* commands still queued when the ring buffer was released
    late_submit,                \* a submit was accepted after the flag was set
    cmp,                        \* operands/results of a VKBufferPayload comparison
    create_result,              \* what create() has returned to its caller
    last_submit,                \* the latest submit call: stash outcome, value returned
    handlers_run                \* handlers process_command has called, in order

vars == <<m_terminating, m_command_ring_buffer_ptr, m_scheduler_thread_ptr,
          worker_pc, command_ptr, dtor_pc, status, next_seq, submits_left,
          now, frontend, recreations_left, backend, mgr_calls, frame_graph,
          dispatched, timeouts_after_flag, discarded, late_submit, cmp,
          create_result, last_submit, handlers_run>>

NULL == [nullptr |-> TRUE]

(***************************************************************************)
(* Program constants.                                                      *)
(***************************************************************************)
N_MAX_SCHEDULED_COMMANDS_LOG_2 == 16

WAIT_PERIOD_MS == 1000

(***************************************************************************)
(* Bounds of the model.                                                    *)
(***************************************************************************)
MaxSubmits == 3

MaxRecreations == 1

MaxCapGrabs == 1

MaxTimeoutsCounted == 2

MaxPayloadValue == 2

MaxDispatchQueued == 2

Producers == {"app1", "app2"}

BufferIds == {7}

BufferSizes == {128}

(***************************************************************************)
(* VKBufferPayload.                                                        *)
(***************************************************************************)
VKBufferPayload(in_id, in_frontend_time, in_buffer_ptr, in_buffer_time, in_memory_block_ptr, in_mem_block_time) ==
    [backend_buffer_creation_time_marker    |-> in_buffer_time,
     backend_mem_block_creation_time_marker |-> in_mem_block_time,
     buffer_ptr                             |-> in_buffer_ptr,
     frontend_object_creation_time_marker   |-> in_frontend_time,
     id                                     |-> in_id,
     memory_block_ptr                       |-> in_memory_block_ptr]

\* operator== with the frontend creation marker left out of the comparison
PayloadEq_WithoutFrontendMarker(a, b) ==
    /\ a.id                                     = b.id
    /\ a.backend_buffer_creation_time_marker    = b.backend_buffer_creation_time_marker
    /\ a.backend_mem_block_creation_time_marker = b.backend_mem_block_creation_time_marker

PayloadEq(a, b) ==
    /\ a.id                                     = b.id
    /\ a.backend_buffer_creation_time_marker    = b.backend_buffer_creation_time_marker
    /\ a.backend_mem_block_creation_time_marker = b.backend_mem_block_creation_time_marker
    /\ a.frontend_object_creation_time_marker   = b.frontend_object_creation_time_marker

\* operator!= with the frontend creation marker left out of the comparison
PayloadNeq_WithoutFrontendMarker(a, b) ==
    \/ a.id                                     # b.id
    \/ a.backend_buffer_creation_time_marker    # b.backend_buffer_creation_time_marker
    \/ a.backend_mem_block_creation_time_marker # b.backend_mem_block_creation_time_marker

PayloadNeq(a, b) ==
    \/ a.id                                     # b.id
    \/ a.backend_buffer_creation_time_marker    # b.backend_buffer_creation_time_marker
    \/ a.backend_mem_block_creation_time_marker # b.backend_mem_block_creation_time_marker
    \/ a.frontend_object_creation_time_marker   # b.frontend_object_creation_time_marker

(***************************************************************************)
(* Time markers are clock samples; a marker of 0 stands for "no such       *)
(* object".                                                                *)
(***************************************************************************)
NoMarker == 0

(***************************************************************************)
(* VKGL::RingBuffer<CommandBaseUniquePtr>: a bounded FIFO.  stash blocks   *)
(* while the buffer is full; grab_with_timeout hands out the oldest        *)
(* command, or times out when there is none.                               *)
(***************************************************************************)
RingBufferNew(in_size_log_2) ==
    [capacity |-> 2 ^ in_size_log_2, items |-> <<>>]

RingCanStash(rb) == Len(rb.items) < rb.capacity

RingStash(rb, c) == [rb EXCEPT !.items = Append(@, c)]

RingCanGrab(rb) == rb.items # <<>>

RingFront(rb) == Head(rb.items)

RingPop(rb) == [rb EXCEPT !.items = Tail(@)]

\* init() handing the constructor a slot count where it takes a logarithm
InitRingBuffer_SizeNotLog2 ==
    [capacity |-> N_MAX_SCHEDULED_COMMANDS_LOG_2, items |-> <<>>]

\* init(), step 1: new VKGL::RingBuffer<...>(N_MAX_SCHEDULED_COMMANDS_LOG_2)
InitRingBuffer == RingBufferNew(N_MAX_SCHEDULED_COMMANDS_LOG_2)

(***************************************************************************)
(* Commands.  thread/seq identify the submitting thread and the position   *)
(* of the command in that thread's submissions.  cls is the dynamic class  *)
(* of the object, type its CommandType tag.                                *)
(***************************************************************************)
BufferReference(id, creation_time, snapshot_time) ==
    [id |-> id, object_creation_time |-> creation_time, time_marker |-> snapshot_time]

BufferDataCommand(thread, seq, ref, size) ==
    [type |-> "BUFFER_DATA", cls |-> "BufferDataCommand", thread |-> thread,
     seq |-> seq, buffer_reference_ptr |-> ref, size |-> size]

BufferSubDataCommand(thread, seq) ==
    [type |-> "BUFFER_SUB_DATA", cls |-> "BufferSubDataCommand", thread |-> thread,
     seq |-> seq, buffer_reference_ptr |-> NULL, size |-> 0]

(***************************************************************************)
(* vkgl_assert / vkgl_assert_fail / vkgl_not_implemented: the process is   *)
(* trapped; no thread takes a further step.                                *)
(***************************************************************************)
Running == status = "running"

AssertFailed == "assert_failed"

NotImplemented == "not_implemented"

(***************************************************************************)
(* Backend buffer manager (IVKBufferManager).                              *)
(***************************************************************************)
Mirror(id, creation_time) ==
    {p \in backend : /\ p.id = id
                     /\ p.frontend_object_creation_time_marker = creation_time}

get_tot_buffer_time_marker(id, creation_time) ==
    IF Mirror(id, creation_time) = {} THEN NoMarker
    ELSE (CHOOSE p \in Mirror(id, creation_time) : TRUE).backend_buffer_creation_time_marker

get_tot_memory_block_time_marker(id, creation_time) ==
    IF Mirror(id, creation_time) = {} THEN NoMarker
    ELSE (CHOOSE p \in Mirror(id, creation_time) : TRUE).backend_mem_block_creation_time_marker

\* The outcomes of acquire_object: the mirrored payload when one exists for this
\* id and generation; otherwise a fresh allocation, which may fail (NULL).
AcquireOutcomes(id, creation_time, buffer_marker, mem_marker) ==
    IF Mirror(id, creation_time) # {}
    THEN Mirror(id, creation_time)
    ELSE {VKBufferPayload(id, creation_time, now + 1, now + 1, now + 1, now + 1), NULL}

BackendAfterAcquire(id, creation_time, result) ==
    IF result = NULL \/ result \in backend THEN backend
    ELSE {p \in backend : p.id # id} \cup {result}

CallRecord(op, id, creation_time, markers, result) ==
    [op |-> op, id |-> id, creation_time |-> creation_time,
     markers |-> markers, result |-> result]

(***************************************************************************)
(* Frame graph nodes.                                                      *)
(***************************************************************************)
Clone(ref) == ref

NodeIO(in_reference, in_start_offset, in_size) ==
    [reference |-> in_reference, start_offset |-> in_start_offset, size |-> in_size]

BufferDataNode(in_inputs, in_outputs, in_command) ==
    [inputs |-> in_inputs, outputs |-> in_outputs, command_ptr |-> in_command]

(***************************************************************************)
(* process_buffer_data_command                                             *)
(***************************************************************************)
\* the handler taking the object for a BufferDataCommand without a checked cast
AsBufferDataCommand_Unchecked(c) == c

\* dynamic_cast<OpenGL::BufferDataCommand*>(in_command_ptr.get() )
AsBufferDataCommand(c) == IF c.cls = "BufferDataCommand" THEN c ELSE NULL

\* the handler resolving with the snapshot marker in place of the creation marker
FrontendBufferCreationTime_Snapshot(c) == c.buffer_reference_ptr.time_marker

FrontendBufferCreationTime(c) == c.buffer_reference_ptr.object_creation_time

FrontendBufferId(c) == c.buffer_reference_ptr.id

FrontendBufferSnapshotTime(c) == c.buffer_reference_ptr.time_marker

\* the handler asking for the buffer's marker only
MarkerQueries_BufferOnly(id, creation_time) ==
    {<<CallRecord("get_tot_buffer_time_marker", id, creation_time, <<>>,
                  get_tot_buffer_time_marker(id, creation_time))>>}

\* The two marker queries are arguments of the acquire_object call: both are
\* evaluated before it, in an order the language leaves open.
MarkerQueries(id, creation_time) ==
    LET b == CallRecord("get_tot_buffer_time_marker", id, creation_time, <<>>,
                        get_tot_buffer_time_marker(id, creation_time))
        m == CallRecord("get_tot_memory_block_time_marker", id, creation_time, <<>>,
                        get_tot_memory_block_time_marker(id, creation_time))
    IN  {<<b, m>>, <<m, b>>}

\* create_info_ptr->inputs.push_back(NodeIO(reference->clone(), 0, size) )
BufferDataInputs(backend_buffer_reference, in_command) ==
    <<NodeIO(Clone(backend_buffer_reference), 0, in_command.size)>>

\* the handler declaring no output for the node
BufferDataOutputs_None(backend_buffer_reference, in_command) ==
    <<>>

\* create_info_ptr->outputs.push_back(NodeIO(reference->clone(), 0, size) )
BufferDataOutputs(backend_buffer_reference, in_command) ==
    <<NodeIO(Clone(backend_buffer_reference), 0, in_command.size)>>

Trap(how) ==
    /\ status' = how
    /\ UNCHANGED <<now, backend, frame_graph>>

process_buffer_data_command(in_command) ==
    IF AsBufferDataCommand(in_command) = NULL
    THEN Trap(AssertFailed) /\ mgr_calls' = <<>>
    ELSE IF in_command.buffer_reference_ptr = NULL
    THEN Trap(AssertFailed) /\ mgr_calls' = <<>>
    ELSE
      LET id            == FrontendBufferId(in_command)
          creation_time == FrontendBufferCreationTime(in_command)
          buffer_marker == get_tot_buffer_time_marker(id, creation_time)
          mem_marker    == get_tot_memory_block_time_marker(id, creation_time)
      IN  \E queries \in MarkerQueries(id, creation_time) :
          \E backend_buffer_reference \in
                 AcquireOutcomes(id, creation_time, buffer_marker, mem_marker) :
            /\ mgr_calls' = Append(queries,
                                   CallRecord("acquire_object", id, creation_time,
                                              <<buffer_marker, mem_marker>>,
                                              backend_buffer_reference))
            /\ IF backend_buffer_reference = NULL
               THEN Trap(AssertFailed)
               ELSE /\ backend' = BackendAfterAcquire(id, creation_time,
                                                      backend_buffer_reference)
                    /\ now' = IF backend_buffer_reference \in backend
                              THEN now ELSE now + 1
                    /\ frame_graph' =
                         Append(frame_graph,
                                BufferDataNode(
                                  BufferDataInputs(backend_buffer_reference, in_command),
                                  BufferDataOutputs(backend_buffer_reference, in_command),
                                  in_command))
                    /\ status' = status

process_buffer_sub_data_command(in_command) ==
    Trap(NotImplemented) /\ mgr_calls' = <<>>

\* the handlers other than the two above: each body is vkgl_not_implemented()
\* and nothing else; this one returns to the loop without a signal
process_unimplemented_command_Silent(in_command) ==
    /\ mgr_calls' = <<>>
    /\ UNCHANGED <<status, now, backend, frame_graph>>

process_unimplemented_command(in_command) ==
    Trap(NotImplemented) /\ mgr_calls' = <<>>

(***************************************************************************)
(* process_command: the switch over in_command_ptr->type.  Each row is one *)
(* case label: the tag, the handler the case calls, and the command class  *)
(* that handler takes.                                                     *)
(***************************************************************************)
DispatchTable ==
    << <<"BUFFER_DATA",                 "process_buffer_data_command",                 "BufferDataCommand">>,
       <<"BUFFER_SUB_DATA",             "process_buffer_sub_data_command",             "BufferSubDataCommand">>,
       <<"CLEAR",                       "process_clear_command",                       "ClearCommand">>,
       <<"COMPILE_SHADER",              "process_compile_shader_command",              "CompileShaderCommand">>,
       <<"COMPRESSED_TEX_IMAGE_1D",     "process_compressed_tex_image_1D_command",     "CompressedTexImage1DCommand">>,
       <<"COMPRESSED_TEX_IMAGE_2D",     "process_compressed_tex_image_2D_command",     "CompressedTexImage2DCommand">>,
       <<"COMPRESSED_TEX_IMAGE_3D",     "process_compressed_tex_image_3D_command",     "CompressedTexImage3DCommand">>,
       <<"COMPRESSED_TEX_SUB_IMAGE_1D", "process_compressed_tex_sub_image_1D_command", "CompressedTexSubImage1DCommand">>,
       <<"COMPRESSED_TEX_SUB_IMAGE_2D", "process_compressed_tex_sub_image_2D_command", "CompressedTexSubImage2DCommand">>,
       <<"COMPRESSED_TEX_SUB_IMAGE_3D", "process_compressed_tex_sub_image_3D_command", "CompressedTexSubImage3DCommand">>,
       <<"COPY_BUFFER_SUB_DATA",        "process_copy_buffer_sub_data_command",        "CopyBufferSubDataCommand">>,
       <<"COPY_TEX_IMAGE_1D",           "process_copy_tex_image_1D_command",           "CopyTexImage1DCommand">>,
       <<"COPY_TEX_IMAGE_2D",           "process_copy_tex_image_2D_command",           "CopyTexImage2DCommand">>,
       <<"COPY_TEX_SUB_IMAGE_1D",       "process_copy_tex_sub_image_1D_command",       "CopyTexSubImage1DCommand">>,
       <<"COPY_TEX_SUB_IMAGE_2D",       "process_copy_tex_sub_image_2D_command",       "CopyTexSubImage2DCommand">>,
       <<"COPY_TEX_SUB_IMAGE_3D",       "process_copy_tex_sub_image_3D_command",       "CopyTexSubImage3DCommand">>,
       <<"DRAW_ARRAYS",                 "process_draw_arrays_command",                 "DrawArraysCommand">>,
       <<"DRAW_ELEMENTS",               "process_draw_elements_command",               "DrawElementsCommand">>,
       <<"DRAW_RANGE_ELEMENTS",         "process_draw_range_elements_command",         "DrawRangeElementsCommand">>,
       <<"FINISH",                      "process_finish_command",                      "FinishCommand">>,
       <<"FLUSH",                       "process_flush_command",                       "FlushCommand">>,
       <<"FLUSH_MAPPED_BUFFER_RANGE",   "process_flush_mapped_buffer_range_command",   "FlushMappedBufferRangeCommand">>,
       <<"GET_BUFFER_SUB_DATA",         "process_get_buffer_sub_data_command",         "GetBufferSubDataCommand">>,
       <<"GET_COMPRESSED_TEX_IMAGE",    "process_get_compressed_tex_image_command",    "GetCompressedTexImageCommand">>,
       <<"GET_TEXTURE_IMAGE",           "process_get_texture_image_command",           "GetTextureImageCommand">>,
       <<"LINK_PROGRAM",                "process_link_program_command",                "LinkProgramCommand">>,
       <<"MAP_BUFFER",                  "process_map_buffer_command",                  "MapBufferCommand">>,
       <<"MULTI_DRAW_ARRAYS",           "process_multi_draw_arrays_command",           "MultiDrawArraysCommand">>,
       <<"MULTI_DRAW_ELEMENTS",         "process_multi_draw_elements_command",         "MultiDrawElementsCommand">>,
       <<"READ_PIXELS",                 "process_read_pixels_command",                 "ReadPixelsCommand">>,
       <<"TEX_IMAGE_1D",                "process_tex_image_1D_command",                "TexImage1DCommand">>,
       <<"TEX_IMAGE_2D",                "process_tex_image_2D_command",                "TexImage2DCommand">>,
       <<"TEX_IMAGE_3D",                "process_tex_image_3D_command",                "TexImage3DCommand">>,
       <<"TEX_SUB_IMAGE_1D",            "process_tex_sub_image_1D_command",            "TexSubImage1DCommand">>,
       <<"TEX_SUB_IMAGE_2D",            "process_tex_sub_image_2D_command",            "TexSubImage2DCommand">>,
       <<"TEX_SUB_IMAGE_3D",            "process_tex_sub_image_3D_command",            "TexSubImage3DCommand">>,
       <<"UNMAP_BUFFER",                "process_unmap_buffer_command",                "UnmapBufferCommand">>,
       <<"VALIDATE_PROGRAM",            "process_validate_program_command",            "ValidateProgramCommand">> >>

CommandTypes == {DispatchTable[i][1] : i \in DOMAIN DispatchTable}

DispatchRow(type) ==
    DispatchTable[CHOOSE i \in DOMAIN DispatchTable : DispatchTable[i][1] = type]

\* the BUFFER_SUB_DATA label calling the handler of the label above it
HandlerOf_SubDataAsData(type) ==
    IF type = "BUFFER_SUB_DATA" THEN DispatchTable[1][2] ELSE DispatchRow(type)[2]

HandlerOf(type) == DispatchRow(type)[2]

ClassOf(type) == DispatchRow(type)[3]

\* the default label raising the signal of the unimplemented handlers
UnrecognizedCommandType_AsNotImplemented ==
    Trap(NotImplemented) /\ mgr_calls' = <<>>

\* default: vkgl_assert_fail();
UnrecognizedCommandType ==
    Trap(AssertFailed) /\ mgr_calls' = <<>>

process_command(in_command) ==
    IF in_command.type \in CommandTypes
    THEN /\ handlers_run' = Append(handlers_run, HandlerOf(in_command.type))
         /\ CASE HandlerOf(in_command.type) = "process_buffer_data_command" ->
                   process_buffer_data_command(in_command)
              [] HandlerOf(in_command.type) = "process_buffer_sub_data_command" ->
                   process_buffer_sub_data_command(in_command)
              [] OTHER ->
                   process_unimplemented_command(in_command)
    ELSE /\ handlers_run' = handlers_run
         /\ UnrecognizedCommandType

(***************************************************************************)
(* Construction: VKScheduler::VKScheduler, then init() from create().      *)
(***************************************************************************)
WorkerThread == [thread |-> "main_thread_entrypoint"]

Constructed ==
    /\ m_terminating = FALSE
    /\ m_command_ring_buffer_ptr = NULL
    /\ m_scheduler_thread_ptr = NULL
    /\ worker_pc = "not_started"
    /\ command_ptr = NULL
    /\ dtor_pc = "alive"
    /\ status = "running"
    /\ next_seq = [p \in Producers |-> 1]
    /\ submits_left = MaxSubmits
    /\ now = 1
    /\ frontend = [id \in BufferIds |-> 1]
    /\ recreations_left = MaxRecreations
    /\ backend = {}
    /\ mgr_calls = <<>>
    /\ frame_graph = <<>>
    /\ dispatched = <<>>
    /\ timeouts_after_flag = 0
    /\ discarded = <<>>
    /\ late_submit = FALSE
    /\ create_result = "pending"
    /\ last_submit = NULL
    /\ handlers_run = <<>>

Init == Constructed /\ cmp = NULL

\* What the two allocations of init() can hand back: the object, or the null
\* pointer its checks provide for.
RingBufferAllocations == {InitRingBuffer, NULL}

ThreadAllocations == {WorkerThread, NULL}

\* init() reporting success without looking at the thread it spawned
InitSucceeded_NoThreadCheck(ring_buffer, thread) ==
    ring_buffer # NULL

\* init(): result is true only past both null checks
InitSucceeded(ring_buffer, thread) ==
    /\ ring_buffer # NULL
    /\ thread # NULL

\* How a failed allocation ends: the vkgl_assert in the null check stops the
\* process, or (assertions compiled out) init() returns false.
AllocationFailureOutcomes == {"trapped", "init_returned_false"}

\* create(): the object is constructed, init() runs, and the caller is handed the
\* scheduler; when init() returns false create() destroys the object, which
\* joins no thread (there is none) and releases the ring buffer, and hands back
\* null.
init ==
    /\ Running
    /\ dtor_pc = "alive"
    /\ create_result = "pending"
    /\ m_command_ring_buffer_ptr = NULL
    /\ m_scheduler_thread_ptr = NULL
    /\ \E ring_buffer \in RingBufferAllocations :
       \E thread \in IF ring_buffer = NULL THEN {NULL} ELSE ThreadAllocations :
       \E failure \in AllocationFailureOutcomes :
         /\ m_scheduler_thread_ptr' = thread
         /\ worker_pc' = IF thread = NULL THEN worker_pc ELSE "grab"
         /\ IF InitSucceeded(ring_buffer, thread)
            THEN /\ m_command_ring_buffer_ptr' = ring_buffer
                 /\ create_result' = "scheduler"
                 /\ UNCHANGED <<status, dtor_pc>>
            ELSE IF failure = "trapped"
            THEN /\ m_command_ring_buffer_ptr' = ring_buffer
                 /\ status' = AssertFailed
                 /\ UNCHANGED <<create_result, dtor_pc>>
            ELSE /\ m_command_ring_buffer_ptr' = NULL
                 /\ dtor_pc' = "destroyed_by_create"
                 /\ create_result' = "null"
                 /\ UNCHANGED status
    /\ UNCHANGED <<m_terminating, command_ptr, next_seq,
                   submits_left, now, frontend, recreations_left, backend,
                   mgr_calls, frame_graph, dispatched, timeouts_after_flag,
                   discarded, late_submit, cmp, last_submit, handlers_run>>

(***************************************************************************)
(* The application: it deletes a buffer and creates one that gets the same *)
(* id, and it submits commands.  A buffer-data call changes the buffer's   *)
(* contents, so its snapshot marker is a fresh clock sample.               *)
(***************************************************************************)
RecreateBuffer(id) ==
    /\ Running
    /\ dtor_pc # "destroyed"
    /\ recreations_left > 0
    /\ recreations_left' = recreations_left - 1
    /\ now' = now + 1
    /\ frontend' = [frontend EXCEPT ![id] = now + 1]
    /\ UNCHANGED <<m_terminating, m_command_ring_buffer_ptr, m_scheduler_thread_ptr,
                   worker_pc, command_ptr, dtor_pc, status, next_seq, submits_left,
                   backend, mgr_calls, frame_graph, dispatched,
                   timeouts_after_flag, discarded, late_submit, cmp,
                   create_result, last_submit, handlers_run>>

NewCommands(p) ==
    {BufferDataCommand(p, next_seq[p],
                       BufferReference(id, frontend[id], now + 1), size) :
         id \in BufferIds, size \in BufferSizes}
    \cup {BufferSubDataCommand(p, next_seq[p])}

\* One call of submit as its caller sees it: what the stash did with the command
\* and the value the call returned ("void": none).
SubmitCall(stash_outcome, returned) ==
    [stash |-> stash_outcome, returned |-> returned]

\* submit() returning only once the worker has taken everything queued before
submit_WaitsForWorker(p, in_command) ==
    /\ Running
    /\ dtor_pc # "destroyed"
    /\ m_scheduler_thread_ptr # NULL
    /\ submits_left > 0
    /\ IF m_command_ring_buffer_ptr = NULL
       THEN /\ status' = AssertFailed
            /\ UNCHANGED <<m_command_ring_buffer_ptr, next_seq, submits_left, now>>
       ELSE /\ RingCanStash(m_command_ring_buffer_ptr)
            /\ m_command_ring_buffer_ptr.items = <<>>
            /\ worker_pc # "process"
            /\ m_command_ring_buffer_ptr' = RingStash(m_command_ring_buffer_ptr, in_command)
            /\ next_seq' = [next_seq EXCEPT ![p] = @ + 1]
            /\ submits_left' = submits_left - 1
            /\ now' = IF in_command.type = "BUFFER_DATA" THEN now + 1 ELSE now
            /\ UNCHANGED status
    /\ late_submit' = (late_submit \/ (m_terminating /\ status' = "running"))
    /\ last_submit' = IF status' = "running" THEN SubmitCall("accepted", "void")
                      ELSE last_submit
    /\ UNCHANGED <<m_terminating, m_scheduler_thread_ptr, worker_pc, command_ptr,
                   dtor_pc, frontend, recreations_left, backend, mgr_calls,
                   frame_graph, dispatched, timeouts_after_flag, discarded, cmp,
                   create_result, handlers_run>>

\* submit(): callable while the scheduler object exists; the stash blocks while
\* the ring buffer is full.
submit(p, in_command) ==
    /\ Running
    /\ dtor_pc # "destroyed"
    /\ m_scheduler_thread_ptr # NULL
    /\ submits_left > 0
    /\ IF m_command_ring_buffer_ptr = NULL
       THEN /\ status' = AssertFailed
            /\ UNCHANGED <<m_command_ring_buffer_ptr, next_seq, submits_left, now>>
       ELSE /\ RingCanStash(m_command_ring_buffer_ptr)
            /\ m_command_ring_buffer_ptr' = RingStash(m_command_ring_buffer_ptr, in_command)
            /\ next_seq' = [next_seq EXCEPT ![p] = @ + 1]
            /\ submits_left' = submits_left - 1
            /\ now' = IF in_command.type = "BUFFER_DATA" THEN now + 1 ELSE now
            /\ UNCHANGED status
    /\ late_submit' = (late_submit \/ (m_terminating /\ status' = "running"))
    /\ last_submit' = IF status' = "running" THEN SubmitCall("accepted", "void")
                      ELSE last_submit
    /\ UNCHANGED <<m_terminating, m_scheduler_thread_ptr, worker_pc, command_ptr,
                   dtor_pc, frontend, recreations_left, backend, mgr_calls,
                   frame_graph, dispatched, timeouts_after_flag, discarded, cmp,
                   create_result, handlers_run>>

Submit == \E p \in Producers : \E c \in NewCommands(p) : submit(p, c)

\* submit() on a full ring buffer whose stash reports the capacity failure where
\* the blocking one waits: the command, whichever it is, is not queued, and the
\* call, being void, returns as it does after a successful stash.
submit_rejected ==
    /\ Running
    /\ dtor_pc # "destroyed"
    /\ m_scheduler_thread_ptr # NULL
    /\ submits_left > 0
    /\ m_command_ring_buffer_ptr # NULL
    /\ ~RingCanStash(m_command_ring_buffer_ptr)
    /\ last_submit' = SubmitCall("rejected", "void")
    /\ UNCHANGED <<m_terminating, m_command_ring_buffer_ptr, m_scheduler_thread_ptr,
                   worker_pc, command_ptr, dtor_pc, status, next_seq, submits_left,
                   now, frontend, recreations_left, backend, mgr_calls, frame_graph,
                   dispatched, timeouts_after_flag, discarded, late_submit, cmp,
                   create_result, handlers_run>>

SubmitRejected == submit_rejected

(***************************************************************************)
(* main_thread_entrypoint: the worker's loop.                              *)
(***************************************************************************)
\* grab_with_timeout on the ring buffer; on a released buffer the call is a
\* use after free.
WorkerGrab ==
    /\ Running
    /\ worker_pc = "grab"
    /\ IF m_command_ring_buffer_ptr = NULL
       THEN /\ status' = "use_after_free"
            /\ UNCHANGED <<m_command_ring_buffer_ptr, worker_pc, command_ptr,
                           timeouts_after_flag>>
       ELSE IF RingCanGrab(m_command_ring_buffer_ptr)
       THEN /\ command_ptr' = RingFront(m_command_ring_buffer_ptr)
            /\ m_command_ring_buffer_ptr' = RingPop(m_command_ring_buffer_ptr)
            /\ worker_pc' = "process"
            /\ UNCHANGED <<status, timeouts_after_flag>>
       ELSE /\ worker_pc' = "timed_out"
            /\ timeouts_after_flag' =
                 IF m_terminating /\ timeouts_after_flag < MaxTimeoutsCounted
                 THEN timeouts_after_flag + 1 ELSE timeouts_after_flag
            /\ UNCHANGED <<status, m_command_ring_buffer_ptr, command_ptr>>
    /\ UNCHANGED <<m_terminating, m_scheduler_thread_ptr, dtor_pc, next_seq,
                   submits_left, now, frontend, recreations_left, backend, mgr_calls,
                   frame_graph, dispatched, discarded, late_submit, cmp,
                   create_result, last_submit, handlers_run>>

\* the loop leaving on a time-out when the flag is NOT set
WorkerCheckTerminating_Inverted ==
    /\ Running
    /\ worker_pc = "timed_out"
    /\ worker_pc' = IF ~m_terminating THEN "exited" ELSE "grab"
    /\ UNCHANGED <<m_terminating, m_command_ring_buffer_ptr, m_scheduler_thread_ptr,
                   command_ptr, dtor_pc, status, next_seq, submits_left, now,
                   frontend, recreations_left, backend, mgr_calls, frame_graph,
                   dispatched, timeouts_after_flag, discarded, late_submit, cmp,
                   create_result, last_submit, handlers_run>>

\* the loop reading the flag with exchange(false) in place of load()
WorkerCheckTerminating_ClearsFlag ==
    /\ Running
    /\ worker_pc = "timed_out"
    /\ worker_pc' = IF m_terminating THEN "exited" ELSE "grab"
    /\ m_terminating' = FALSE
    /\ UNCHANGED <<m_command_ring_buffer_ptr, m_scheduler_thread_ptr,
                   command_ptr, dtor_pc, status, next_seq, submits_left, now,
                   frontend, recreations_left, backend, mgr_calls, frame_graph,
                   dispatched, timeouts_after_flag, discarded, late_submit, cmp,
                   create_result, last_submit, handlers_run>>

\* if (m_terminating.load() ) break; else continue;
WorkerCheckTerminating ==
    /\ Running
    /\ worker_pc = "timed_out"
    /\ worker_pc' = IF m_terminating THEN "exited" ELSE "grab"
    /\ UNCHANGED <<m_terminating, m_command_ring_buffer_ptr, m_scheduler_thread_ptr,
                   command_ptr, dtor_pc, status, next_seq, submits_left, now,
                   frontend, recreations_left, backend, mgr_calls, frame_graph,
                   dispatched, timeouts_after_flag, discarded, late_submit, cmp,
                   create_result, last_submit, handlers_run>>

\* the loop keeping its command after the dispatch and dispatching it again
WorkerProcess_KeepsCommand ==
    /\ Running
    /\ worker_pc = "process"
    /\ dispatched' = Append(dispatched, command_ptr)
    /\ process_command(command_ptr)
    /\ worker_pc' = IF Len(dispatched') % 2 = 1 THEN "process" ELSE "grab"
    /\ command_ptr' = IF Len(dispatched') % 2 = 1 THEN command_ptr ELSE NULL
    /\ UNCHANGED <<m_terminating, m_command_ring_buffer_ptr, m_scheduler_thread_ptr,
                   dtor_pc, next_seq, submits_left, frontend, recreations_left,
                   timeouts_after_flag, discarded, late_submit, cmp,
                   create_result, last_submit>>

\* process_command(std::move(command_ptr) )
WorkerProcess ==
    /\ Running
    /\ worker_pc = "process"
    /\ dispatched' = Append(dispatched, command_ptr)
    /\ process_command(command_ptr)
    /\ worker_pc' = IF status' = "running" THEN "grab" ELSE "process"
    /\ command_ptr' = NULL
    /\ UNCHANGED <<m_terminating, m_command_ring_buffer_ptr, m_scheduler_thread_ptr,
                   dtor_pc, next_seq, submits_left, frontend, recreations_left,
                   timeouts_after_flag, discarded, late_submit, cmp,
                   create_result, last_submit>>

(***************************************************************************)
(* ~VKScheduler                                                            *)
(***************************************************************************)
\* if (m_scheduler_thread_ptr != nullptr) m_terminating.exchange(true);
DtorSetTerminating ==
    /\ Running
    /\ dtor_pc = "alive"
    /\ m_command_ring_buffer_ptr # NULL
    /\ IF m_scheduler_thread_ptr # NULL
       THEN m_terminating' = TRUE /\ dtor_pc' = "join"
       ELSE m_terminating' = m_terminating /\ dtor_pc' = "reset"
    /\ UNCHANGED <<m_command_ring_buffer_ptr, m_scheduler_thread_ptr, worker_pc,
                   command_ptr, status, next_seq, submits_left, now, frontend,
                   recreations_left, backend, mgr_calls, frame_graph, dispatched,
                   timeouts_after_flag, discarded, late_submit, cmp,
                   create_result, last_submit, handlers_run>>

\* the destructor going on without waiting for the worker (a detach for the join)
DtorJoin_NoWait ==
    /\ Running
    /\ dtor_pc = "join"
    /\ dtor_pc' = "reset"
    /\ UNCHANGED <<m_terminating, m_command_ring_buffer_ptr, m_scheduler_thread_ptr,
                   worker_pc, command_ptr, status, next_seq, submits_left, now,
                   frontend, recreations_left, backend, mgr_calls, frame_graph,
                   dispatched, timeouts_after_flag, discarded, late_submit, cmp,
                   create_result, last_submit, handlers_run>>

\* m_scheduler_thread_ptr->join() returns once the worker has left its entrypoint
DtorJoin ==
    /\ Running
    /\ dtor_pc = "join"
    /\ worker_pc = "exited"
    /\ dtor_pc' = "reset"
    /\ UNCHANGED <<m_terminating, m_command_ring_buffer_ptr, m_scheduler_thread_ptr,
                   worker_pc, command_ptr, status, next_seq, submits_left, now,
                   frontend, recreations_left, backend, mgr_calls, frame_graph,
                   dispatched, timeouts_after_flag, discarded, late_submit, cmp,
                   create_result, last_submit, handlers_run>>

\* m_command_ring_buffer_ptr.reset(): the commands still queued are destroyed
DtorReset ==
    /\ Running
    /\ dtor_pc = "reset"
    /\ discarded' = m_command_ring_buffer_ptr.items
    /\ m_command_ring_buffer_ptr' = NULL
    /\ dtor_pc' = "destroyed"
    /\ UNCHANGED <<m_terminating, m_scheduler_thread_ptr, worker_pc, command_ptr,
                   status, next_seq, submits_left, now, frontend, recreations_left,
                   backend, mgr_calls, frame_graph, dispatched, timeouts_after_flag,
                   late_submit, cmp,
                   create_result, last_submit, handlers_run>>

Next ==
    \/ init
    \/ \E id \in BufferIds : RecreateBuffer(id)
    \/ Submit
    \/ WorkerGrab
    \/ WorkerCheckTerminating
    \/ WorkerProcess
    \/ DtorSetTerminating
    \/ DtorJoin
    \/ DtorReset

Spec == Init /\ [][Next]_vars

(***************************************************************************)
(* Comparison of two VKBufferPayload values.                               *)
(***************************************************************************)
PayloadValues == 1..MaxPayloadValue

PayloadPointers == {101, 102}

Payloads ==
    {VKBufferPayload(i, f, bp, b, mp, m) :
        i \in PayloadValues, f \in PayloadValues, bp \in PayloadPointers,
        b \in PayloadValues, mp \in PayloadPointers, m \in PayloadValues}

EqInit ==
    /\ Constructed
    /\ cmp \in {[a |-> a, b |-> b, done |-> FALSE, eq |-> FALSE, neq |-> FALSE] :
                   a \in Payloads, b \in Payloads}

\* a == b and a != b
Compare ==
    /\ cmp # NULL
    /\ ~cmp.done
    /\ cmp' = [cmp EXCEPT !.done = TRUE,
                          !.eq   = PayloadEq(cmp.a, cmp.b),
                          !.neq  = PayloadNeq(cmp.a, cmp.b)]
    /\ UNCHANGED <<m_terminating, m_command_ring_buffer_ptr, m_scheduler_thread_ptr,
                   worker_pc, command_ptr, dtor_pc, status, next_seq, submits_left,
                   now, frontend, recreations_left, backend, mgr_calls, frame_graph,
                   dispatched, timeouts_after_flag, discarded, late_submit,
                   create_result, last_submit, handlers_run>>

EqNext == Compare

EqSpec == EqInit /\ [][EqNext]_vars

(***************************************************************************)
(* The ring buffer at its capacity: the scheduler after init(), one        *)
(* producer having submitted capacity - 1 buffer-data commands before the  *)
(* worker dequeued its first one.                                          *)
(***************************************************************************)
QueuedEarlier(i) ==
    BufferDataCommand("app1", i,
                      BufferReference(CHOOSE id \in BufferIds : TRUE, 1, 1 + i),
                      CHOOSE size \in BufferSizes : TRUE)

CapInit ==
    /\ m_terminating = FALSE
    /\ m_command_ring_buffer_ptr =
         [InitRingBuffer EXCEPT
            !.items = [i \in 1..(InitRingBuffer.capacity - 1) |-> QueuedEarlier(i)]]
    /\ m_scheduler_thread_ptr = WorkerThread
    /\ worker_pc = "grab"
    /\ command_ptr = NULL
    /\ dtor_pc = "alive"
    /\ status = "running"
    /\ next_seq = [p \in Producers |-> IF p = "app1" THEN InitRingBuffer.capacity ELSE 1]
    /\ submits_left = MaxSubmits
    /\ now = InitRingBuffer.capacity
    /\ frontend = [id \in BufferIds |-> 1]
    /\ recreations_left = 0
    /\ backend = {}
    /\ mgr_calls = <<>>
    /\ frame_graph = <<>>
    /\ dispatched = <<>>
    /\ timeouts_after_flag = 0
    /\ discarded = <<>>
    /\ late_submit = FALSE
    /\ cmp = NULL
    /\ create_result = "scheduler"
    /\ last_submit = SubmitCall("accepted", "void")
    /\ handlers_run = <<>>

CapWorkerGrab == Len(dispatched) < MaxCapGrabs /\ WorkerGrab

\* The commands queued here are dispatched only after the 2^16 - 1 before them:
\* one kind of command is enough.
CapSubmit ==
    \E p \in Producers :
        \E c \in {n \in NewCommands(p) : n.type = "BUFFER_DATA"} : submit(p, c)

CapNext ==
    \/ CapSubmit
    \/ SubmitRejected
    \/ CapWorkerGrab
    \/ WorkerProcess

CapSpec == CapInit /\ [][CapNext]_vars

(***************************************************************************)
(* The dispatch of commands of every kind: the scheduler after init(), one *)
(* producer having submitted a few commands before the worker dequeued its *)
(* first one.  The first command is of any kind a caller can construct: a  *)
(* well-formed one of each tag, a buffer-data command without a reference, *)
(* an object of another class tagged BUFFER_DATA, a tag with no case label.*)
(***************************************************************************)
UnknownCommandType == "COMMAND_TYPE_WITHOUT_CASE_LABEL"

DispatchSizes == {0, 128, 256}

StubCommand(type, thread, seq) ==
    [type |-> type, cls |-> ClassOf(type), thread |-> thread, seq |-> seq,
     buffer_reference_ptr |-> NULL, size |-> 0]

WellFormedBufferData(thread, seq) ==
    {BufferDataCommand(thread, seq, BufferReference(id, 1, 1 + seq), size) :
         id \in BufferIds, size \in DispatchSizes}

MalformedBufferData(thread, seq) ==
    {BufferDataCommand(thread, seq, NULL, size) : size \in DispatchSizes}
    \cup {[BufferDataCommand(thread, seq, BufferReference(id, 1, 1 + seq), 128)
              EXCEPT !.cls = "BufferSubDataCommand"] : id \in BufferIds}

DispatchCommands(thread, seq) ==
    WellFormedBufferData(thread, seq)
    \cup MalformedBufferData(thread, seq)
    \cup {StubCommand(type, thread, seq) : type \in CommandTypes \ {"BUFFER_DATA"}}
    \cup {[StubCommand("FINISH", thread, seq) EXCEPT !.type = UnknownCommandType]}

FollowingCommands(thread, seq) ==
    {BufferDataCommand(thread, seq,
                       BufferReference(CHOOSE id \in BufferIds : TRUE, 1, 1 + seq), 128),
     StubCommand("DRAW_ARRAYS", thread, seq)}

FollowingQueues ==
    {q \in [1..(MaxDispatchQueued - 1) ->
              UNION {FollowingCommands("app1", i) : i \in 2..MaxDispatchQueued}] :
        \A i \in 1..(MaxDispatchQueued - 1) : q[i] \in FollowingCommands("app1", i + 1)}

DispatchQueues ==
    {<<first>> \o rest : first \in DispatchCommands("app1", 1), rest \in FollowingQueues}

DispatchInit ==
    /\ m_terminating = FALSE
    /\ m_command_ring_buffer_ptr \in
         {[InitRingBuffer EXCEPT !.items = q] : q \in DispatchQueues}
    /\ m_scheduler_thread_ptr = WorkerThread
    /\ worker_pc = "grab"
    /\ command_ptr = NULL
    /\ dtor_pc = "alive"
    /\ status = "running"
    /\ next_seq = [p \in Producers |-> IF p = "app1" THEN MaxDispatchQueued + 1 ELSE 1]
    /\ submits_left = 0
    /\ now = MaxDispatchQueued + 1
    /\ frontend = [id \in BufferIds |-> 1]
    /\ recreations_left = 0
    /\ backend = {}
    /\ mgr_calls = <<>>
    /\ frame_graph = <<>>
    /\ dispatched = <<>>
    /\ timeouts_after_flag = 0
    /\ discarded = <<>>
    /\ late_submit = FALSE
    /\ cmp = NULL
    /\ create_result = "scheduler"
    /\ last_submit = SubmitCall("accepted", "void")
    /\ handlers_run = <<>>

DispatchNext ==
    \/ WorkerGrab
    \/ WorkerCheckTerminating
    \/ WorkerProcess

DispatchSpec == DispatchInit /\ [][DispatchNext]_vars

\* The worker thread and the joining destructor are threads the operating system
\* keeps scheduling, and a wait in grab_with_timeout ends after WAIT_PERIOD_MS.
LiveSpec ==
    /\ Spec
    /\ WF_vars(WorkerGrab)
    /\ WF_vars(WorkerCheckTerminating)
    /\ WF_vars(WorkerProcess)
    /\ WF_vars(DtorJoin)

(***************************************************************************)
(* C1.  Commands of one producer are dispatched in submission order.       *)
(***************************************************************************)
DispatchedOf(p) == SelectSeq(dispatched, LAMBDA c : c.thread = p)

\* C1: for every producer thread, the commands of that thread handed to
\* process_command so far are exactly the first commands it submitted, in the
\* order it submitted them (the i-th dispatched one is its i-th submission):
\* no reordering and no duplication, whatever the other threads submit.
C1_SubmissionOrder ==
    \A p \in Producers :
        LET d == DispatchedOf(p)
        IN  /\ Len(d) < next_seq[p]
            /\ \A i \in 1..Len(d) : d[i].seq = i

C1_Witness ==
    /\ Len(dispatched) = 3
    /\ dispatched[1].thread = "app1"
    /\ dispatched[2].thread = "app2"
    /\ dispatched[3].thread = "app1"
    /\ dispatched[3].seq = 2

(***************************************************************************)
(* C2.  The ring buffer is released only after the worker has exited.      *)
(***************************************************************************)
DtorStarted == dtor_pc \in {"join", "reset", "destroyed"}

RingReleased == dtor_pc = "destroyed"

\* C2: the destructor sets the terminating flag, then joins, then releases the
\* ring buffer: once it has started the flag is set, it is past the join only
\* when the worker has exited, the ring buffer exists until the release, and the
\* worker never calls grab_with_timeout on a released ring buffer.
C2_ReleaseAfterJoin ==
    /\ DtorStarted => m_terminating
    /\ dtor_pc \in {"reset", "destroyed"} => worker_pc = "exited"
    /\ (m_scheduler_thread_ptr # NULL /\ ~RingReleased) => m_command_ring_buffer_ptr # NULL
    /\ RingReleased => (m_command_ring_buffer_ptr = NULL /\ worker_pc = "exited")
    /\ status # "use_after_free"

C2_Witness ==
    /\ RingReleased
    /\ worker_pc = "exited"
    /\ Len(dispatched) >= 2

(***************************************************************************)
(* C3.  Shutdown takes at most one wait period.                            *)
(***************************************************************************)
QueueEmpty ==
    m_command_ring_buffer_ptr # NULL /\ m_command_ring_buffer_ptr.items = <<>>

\* The flag is set, nothing is queued or being processed, and no thread submits
\* any more.
ShutdownIdle ==
    /\ Running
    /\ m_terminating
    /\ QueueEmpty
    /\ worker_pc \in {"grab", "timed_out"}
    /\ submits_left = 0

\* C3: the worker observes at most one time-out of grab_with_timeout after the
\* flag was set (at most WAIT_PERIOD_MS of waiting), it leaves its loop right
\* after that time-out, and once the flag is set with nothing queued and no
\* further submissions the worker eventually exits and the destructor's join
\* returns.
C3_ExitWithinOneWaitPeriod ==
    /\ [](timeouts_after_flag * WAIT_PERIOD_MS <= WAIT_PERIOD_MS)
    /\ [](timeouts_after_flag = 1 => worker_pc \in {"timed_out", "exited"})
    /\ (ShutdownIdle ~> (worker_pc = "exited" /\ dtor_pc \in {"reset", "destroyed"}))

C3_Witness ==
    /\ worker_pc = "exited"
    /\ timeouts_after_flag = 1
    /\ dtor_pc = "reset"
    /\ dispatched = <<>>

(***************************************************************************)
(* C4.  Destruction with pending commands.                                 *)
(***************************************************************************)
QueuedOrDiscarded ==
    IF m_command_ring_buffer_ptr = NULL THEN discarded
    ELSE m_command_ring_buffer_ptr.items

\* C4: when no thread submits after the destructor has set the flag, every
\* command that was pending at that moment has been dispatched by the time the
\* worker exits, under every interleaving: the worker never exits with a command
\* left in the queue.
C4_PendingAllDispatched ==
    (worker_pc = "exited" /\ ~late_submit) => QueuedOrDiscarded = <<>>

(***************************************************************************)
(* C5.  The ring buffer holds at most 2^16 commands and loses none.        *)
(***************************************************************************)
Held == IF command_ptr = NULL THEN <<>> ELSE <<command_ptr>>

\* The commands of producer p that were accepted, oldest first, wherever they are.
PipelineOf(p) ==
    SelectSeq(dispatched \o Held \o m_command_ring_buffer_ptr.items,
              LAMBDA c : c.thread = p)

RingIsFull ==
    Len(m_command_ring_buffer_ptr.items) = m_command_ring_buffer_ptr.capacity

\* C5: the ring buffer the scheduler creates has capacity 2^16 and never holds
\* more commands than that; while it holds 2^16 commands no stash is accepted
\* (the submitting thread waits for a slot); and every command that was accepted
\* is still there exactly once and in order: dispatched, held by the worker, or
\* queued.
C5_CapacityNeverExceeded ==
    m_command_ring_buffer_ptr # NULL =>
        /\ m_command_ring_buffer_ptr.capacity = 2 ^ 16
        /\ Len(m_command_ring_buffer_ptr.items) <= 2 ^ 16
        /\ RingIsFull => ~ENABLED Submit
        /\ \A p \in Producers :
             LET pipe == PipelineOf(p)
             IN  /\ Len(pipe) = next_seq[p] - 1
                 /\ \A i \in 1..Len(pipe) : pipe[i].seq = i

C5_Witness ==
    /\ m_command_ring_buffer_ptr # NULL
    /\ RingIsFull
    /\ submits_left > 0
    /\ Len(dispatched) >= 1
    /\ next_seq["app2"] > 1

(***************************************************************************)
(* C6.  No accepted command is discarded.                                  *)
(***************************************************************************)
\* C6: when the ring buffer is released it is empty: every command stash has
\* accepted was handed to process_command before the release.
C6_NothingDiscarded ==
    RingReleased => discarded = <<>>

(***************************************************************************)
(* C7.  Equality of VKBufferPayload.                                       *)
(***************************************************************************)
PayloadKey(x) ==
    <<x.id, x.frontend_object_creation_time_marker,
      x.backend_buffer_creation_time_marker,
      x.backend_mem_block_creation_time_marker>>

WithPointers(x, bp, mp) == [x EXCEPT !.buffer_ptr = bp, !.memory_block_ptr = mp]

\* C7: a == b is true exactly when the ids and the three creation markers are
\* pairwise equal; payloads with the same id and a different creation marker
\* are not equal; and the result is the same whatever buffer_ptr and
\* memory_block_ptr the two payloads hold.
C7_EqualityIsIdAndMarkers ==
    (cmp # NULL /\ cmp.done) =>
        /\ cmp.eq <=> (PayloadKey(cmp.a) = PayloadKey(cmp.b))
        /\ (cmp.a.id = cmp.b.id /\ PayloadKey(cmp.a) # PayloadKey(cmp.b)) => ~cmp.eq
        /\ \A bp1, mp1, bp2, mp2 \in PayloadPointers :
             PayloadEq(WithPointers(cmp.a, bp1, mp1), WithPointers(cmp.b, bp2, mp2))
               = cmp.eq

C7_Witness ==
    /\ cmp # NULL
    /\ cmp.done
    /\ cmp.a.id = cmp.b.id
    /\ cmp.a.frontend_object_creation_time_marker
         # cmp.b.frontend_object_creation_time_marker
    /\ cmp.a.backend_buffer_creation_time_marker
         = cmp.b.backend_buffer_creation_time_marker
    /\ cmp.a.backend_mem_block_creation_time_marker
         = cmp.b.backend_mem_block_creation_time_marker
    /\ cmp.a.buffer_ptr = cmp.b.buffer_ptr
    /\ ~cmp.eq

(***************************************************************************)
(* C8.  A reused id never aliases the backend reference of the old object. *)
(***************************************************************************)
NodeBindings(n) == n.inputs \o n.outputs

NodeKey(n) ==
    <<n.command_ptr.buffer_reference_ptr.id,
      n.command_ptr.buffer_reference_ptr.object_creation_time>>

\* C8: every binding of every frame graph node holds a backend reference that
\* was resolved for the id and the creation marker of that node's own command,
\* and two nodes whose commands name the same id with different creation
\* markers hold references that compare unequal.
C8_NoAliasingAcrossReuse ==
    /\ \A i \in 1..Len(frame_graph) :
         \A k \in 1..Len(NodeBindings(frame_graph[i])) :
           LET r == NodeBindings(frame_graph[i])[k].reference
           IN  /\ r.id = NodeKey(frame_graph[i])[1]
               /\ r.frontend_object_creation_time_marker = NodeKey(frame_graph[i])[2]
    /\ \A i, j \in 1..Len(frame_graph) :
         (/\ NodeKey(frame_graph[i])[1] = NodeKey(frame_graph[j])[1]
          /\ NodeKey(frame_graph[i])[2] # NodeKey(frame_graph[j])[2])
         => \A k \in 1..Len(NodeBindings(frame_graph[i])) :
              \A l \in 1..Len(NodeBindings(frame_graph[j])) :
                /\ ~PayloadEq(NodeBindings(frame_graph[i])[k].reference,
                              NodeBindings(frame_graph[j])[l].reference)
                /\ PayloadNeq(NodeBindings(frame_graph[i])[k].reference,
                              NodeBindings(frame_graph[j])[l].reference)

C8_Witness ==
    /\ Len(frame_graph) >= 2
    /\ NodeKey(frame_graph[1])[1] = NodeKey(frame_graph[2])[1]
    /\ NodeKey(frame_graph[1])[2] # NodeKey(frame_graph[2])[2]

(***************************************************************************)
(* C9.  Buffer-data commands in a row for one buffer.                      *)
(***************************************************************************)
IsBufferData(c) == c.type = "BUFFER_DATA"

\* The buffer-data commands whose handler has run to its end.
HandledBufferData ==
    LET bd == SelectSeq(dispatched, IsBufferData)
    IN  IF status = AssertFailed THEN SubSeq(bd, 1, Len(bd) - 1) ELSE bd

\* C9: the frame graph holds exactly one node per handled buffer-data command,
\* in dispatch order (hence in the submission order of each thread), and the
\* nodes of commands processed in a row for the same buffer (same id and
\* creation marker) all bind the same backend reference.
C9_OneNodePerCommandSameReference ==
    /\ Len(frame_graph) = Len(HandledBufferData)
    /\ \A i \in 1..Len(frame_graph) : frame_graph[i].command_ptr = HandledBufferData[i]
    /\ \A i \in 1..Len(frame_graph) :
         \A k, l \in 1..Len(NodeBindings(frame_graph[i])) :
           PayloadEq(NodeBindings(frame_graph[i])[k].reference,
                     NodeBindings(frame_graph[i])[l].reference)
    /\ \A i \in 1..(Len(frame_graph) - 1) :
         NodeKey(frame_graph[i]) = NodeKey(frame_graph[i + 1])
         => \A k \in 1..Len(NodeBindings(frame_graph[i])) :
              \A l \in 1..Len(NodeBindings(frame_graph[i + 1])) :
                /\ PayloadEq(NodeBindings(frame_graph[i])[k].reference,
                             NodeBindings(frame_graph[i + 1])[l].reference)
                /\ NodeBindings(frame_graph[i])[k].reference
                     = NodeBindings(frame_graph[i + 1])[l].reference

C9_Witness ==
    /\ Len(frame_graph) = 2
    /\ submits_left = MaxSubmits - 2
    /\ frame_graph[1].command_ptr.thread = "app1"
    /\ frame_graph[2].command_ptr.thread = "app1"
    /\ frame_graph[1].command_ptr.seq = 1
    /\ frame_graph[2].command_ptr.seq = 2
    /\ NodeKey(frame_graph[1]) = NodeKey(frame_graph[2])
    /\ frame_graph[1].inputs[1].size = 128

(***************************************************************************)
(* C10.  A failed acquire_object.                                          *)
(***************************************************************************)
AcquireFailed ==
    /\ mgr_calls # <<>>
    /\ mgr_calls[Len(mgr_calls)].op = "acquire_object"
    /\ mgr_calls[Len(mgr_calls)].result = NULL

\* C10: when acquire_object yields no reference only that command is given up:
\* the process is not trapped and the worker is back in its loop, ready to
\* dequeue the next command.
C10_AcquireFailureIsRecoverable ==
    AcquireFailed => (Running /\ worker_pc \in {"grab", "timed_out", "exited"})

(***************************************************************************)
(* C11: a submit whose command the full queue did not take returns to its  *)
(* caller something other than what an accepted submit returns, so that    *)
(* the caller can tell the two apart.                                      *)
(***************************************************************************)
C11_RejectionReturnedToCaller ==
    (last_submit # NULL /\ last_submit.stash = "rejected")
        => last_submit.returned # "void"

(***************************************************************************)
(* C12.  create is all or nothing.                                         *)
(***************************************************************************)
WorkerRunning == worker_pc \in {"grab", "timed_out", "process"}

\* C12: a scheduler create has returned to its caller has, until its destructor
\* runs, both its ring buffer and its one running worker thread; had create
\* returned null, neither a ring buffer nor a worker would be left; so a
\* scheduler with only one of the two is never in the caller's hands.
C12_CreateAllOrNothing ==
    /\ create_result \in {"pending", "scheduler", "null"}
    /\ (create_result = "scheduler" /\ dtor_pc = "alive") =>
           /\ m_command_ring_buffer_ptr # NULL
           /\ m_scheduler_thread_ptr = WorkerThread
           /\ Running => WorkerRunning
    /\ create_result = "null" =>
           /\ m_command_ring_buffer_ptr = NULL
           /\ m_scheduler_thread_ptr = NULL
           /\ worker_pc = "not_started"
    /\ create_result = "pending" => worker_pc = "not_started"

C12_Witness ==
    /\ create_result = "scheduler"
    /\ dtor_pc = "alive"
    /\ m_command_ring_buffer_ptr # NULL
    /\ m_command_ring_buffer_ptr.capacity = 2 ^ N_MAX_SCHEDULED_COMMANDS_LOG_2
    /\ m_scheduler_thread_ptr = WorkerThread
    /\ worker_pc = "grab"

(***************************************************************************)
(* C13.  submit is fire and forget.                                        *)
(***************************************************************************)
SubmitHasRoom ==
    /\ Running
    /\ create_result = "scheduler"
    /\ dtor_pc # "destroyed"
    /\ submits_left > 0
    /\ m_command_ring_buffer_ptr # NULL
    /\ RingCanStash(m_command_ring_buffer_ptr)

SubmitStep == next_seq' # next_seq

\* C13: while the ring buffer has room a submit can complete whatever the worker
\* is doing (waiting, timed out, in the middle of a handler, exited); the step
\* that completes it puts the command at the back of the ring buffer and is no
\* step of the worker: nothing is dequeued or dispatched by it.
C13_SubmitFireAndForget ==
    /\ [](SubmitHasRoom => ENABLED Submit)
    /\ [][SubmitStep =>
            /\ worker_pc' = worker_pc
            /\ command_ptr' = command_ptr
            /\ dispatched' = dispatched
            /\ frame_graph' = frame_graph
            /\ Len(m_command_ring_buffer_ptr'.items) =
                   Len(m_command_ring_buffer_ptr.items) + 1
            /\ last_submit' = SubmitCall("accepted", "void")]_vars

\* submit has returned, its command is queued behind another one, and the worker
\* is still in the handler of an earlier command
C13_Witness ==
    /\ last_submit = SubmitCall("accepted", "void")
    /\ m_command_ring_buffer_ptr # NULL
    /\ Len(m_command_ring_buffer_ptr.items) >= 2
    /\ worker_pc = "process"
    /\ Len(dispatched) = 0

(***************************************************************************)
(* C14.  A command without an implemented handler fails loudly.            *)
(***************************************************************************)
Unimplemented(c) == c.type \in CommandTypes \ {"BUFFER_DATA"}

NodesOf(c) == {i \in 1..Len(frame_graph) : frame_graph[i].command_ptr = c}

WorkerStopped ==
    /\ ~ENABLED WorkerGrab
    /\ ~ENABLED WorkerCheckTerminating
    /\ ~ENABLED WorkerProcess

\* C14: once a command with a tag other than BUFFER_DATA that has a case label
\* has been dispatched, the process is trapped: it is the last command ever
\* dispatched, the worker takes no further step, and neither a node nor a
\* manager call was made for it.
C14_UnimplementedFailsLoudly ==
    \A i \in 1..Len(dispatched) :
        Unimplemented(dispatched[i]) =>
            /\ i = Len(dispatched)
            /\ ~Running
            /\ WorkerStopped
            /\ NodesOf(dispatched[i]) = {}
            /\ Len(frame_graph) <= i - 1
            /\ mgr_calls = <<>>

C14_Witness ==
    /\ Len(dispatched) = 2
    /\ dispatched[1].type = "BUFFER_DATA"
    /\ dispatched[2].type = "DRAW_ARRAYS"
    /\ Len(frame_graph) = 1
    /\ ~Running

(***************************************************************************)
(* C15.  The worker leaves its loop only on a time-out with the flag set.  *)
(***************************************************************************)
WorkerExits == worker_pc # "exited" /\ worker_pc' = "exited"

WorkerMoves == worker_pc' # worker_pc

\* C15: an exited worker implies a set terminating flag; the step that takes the
\* worker out of its loop starts where grab_with_timeout has just timed out and
\* the flag is set; after a time-out with the flag unset the worker calls
\* grab_with_timeout again; and after a command was received the worker goes on
\* to dispatch it and from there back to grab_with_timeout, never out of the loop.
C15_ExitOnlyOnTimeoutWithFlag ==
    /\ [](worker_pc = "exited" => m_terminating)
    /\ [][WorkerExits => (worker_pc = "timed_out" /\ m_terminating)]_vars
    /\ [][(worker_pc = "timed_out" /\ ~m_terminating /\ WorkerMoves)
             => worker_pc' = "grab"]_vars
    /\ [][(worker_pc = "grab" /\ WorkerMoves /\ command_ptr' # NULL)
             => worker_pc' = "process"]_vars
    /\ [][(worker_pc = "process" /\ WorkerMoves) => worker_pc' = "grab"]_vars

C15_Witness ==
    /\ worker_pc = "exited"
    /\ m_terminating
    /\ dtor_pc = "join"
    /\ timeouts_after_flag = 1
    /\ Len(dispatched) >= 1

(***************************************************************************)
(* C16.  One handler per dequeued command, one command at a time.          *)
(***************************************************************************)
HasCaseLabel(c) == c.type \in CommandTypes

Dequeued == MaxDispatchQueued - Len(m_command_ring_buffer_ptr.items)

DequeueStep ==
    Len(m_command_ring_buffer_ptr'.items) < Len(m_command_ring_buffer_ptr.items)

\* C16: the handlers called so far are, in order, those the case labels name for
\* the tags of the dispatched commands, one per command, and the buffer-data
\* handler is called for BUFFER_DATA only; a dispatched command whose tag has no
\* case label had no handler called and left the process in the assertion
\* failure; the worker holds at most one command, every command dequeued
\* earlier has been through its handler when the next one is dequeued, and a
\* dequeue takes exactly the oldest queued command.
C16_OneHandlerPerCommandInTurn ==
    /\ [](LET labelled == SelectSeq(dispatched, HasCaseLabel)
          IN  /\ Len(handlers_run) = Len(labelled)
              /\ \A i \in 1..Len(labelled) :
                    /\ handlers_run[i] = DispatchRow(labelled[i].type)[2]
                    /\ handlers_run[i] = "process_buffer_data_command"
                          <=> labelled[i].type = "BUFFER_DATA"
                    /\ \A j \in 1..Len(labelled) :
                          handlers_run[i] = handlers_run[j]
                              => labelled[i].type = labelled[j].type)
    /\ [](\A i \in 1..Len(dispatched) :
            ~HasCaseLabel(dispatched[i]) =>
                (i = Len(dispatched) /\ status = AssertFailed /\ mgr_calls = <<>>))
    /\ [](Dequeued = Len(dispatched) + (IF command_ptr = NULL THEN 0 ELSE 1))
    /\ [](command_ptr # NULL => worker_pc = "process")
    /\ [][DequeueStep =>
            /\ command_ptr = NULL
            /\ Len(dispatched) = Dequeued
            /\ command_ptr' = Head(m_command_ring_buffer_ptr.items)
            /\ m_command_ring_buffer_ptr'.items = Tail(m_command_ring_buffer_ptr.items)
            /\ UNCHANGED <<dispatched, handlers_run, frame_graph>>]_vars

C16_Witness ==
    /\ Len(dispatched) = 2
    /\ handlers_run = <<"process_buffer_data_command", "process_draw_arrays_command">>
    /\ command_ptr = NULL
    /\ Len(frame_graph) = 1

(***************************************************************************)
(* C17.  The node of a buffer-data command.                                *)
(***************************************************************************)
\* the handler of the i-th dispatched command was the buffer-data handler and
\* ran to its end
Completed(i) ==
    /\ IsBufferData(dispatched[i])
    /\ i < Len(dispatched) \/ Running

WholeBuffer(io, c) ==
    /\ io.start_offset = 0
    /\ io.size = c.size

\* C17: the frame graph was handed exactly one node for each buffer-data
\* command whose handler ran to its end and none for any other command; that
\* node has one input and one output, both from offset 0 over the size of the
\* command, both holding the one backend reference resolved for the command's
\* buffer (the one acquire_object returned); and the node holds the command,
\* which neither the worker nor the ring buffer holds any longer.
C17_OneNodeWholeBufferInOut ==
    /\ Len(frame_graph) = Cardinality({i \in 1..Len(dispatched) : Completed(i)})
    /\ \A i \in 1..Len(dispatched) :
         IF Completed(i)
         THEN /\ Cardinality(NodesOf(dispatched[i])) = 1
              /\ \A k \in NodesOf(dispatched[i]) :
                   LET node == frame_graph[k]
                       c    == dispatched[i]
                   IN  /\ Len(node.inputs) = 1
                       /\ Len(node.outputs) = 1
                       /\ WholeBuffer(node.inputs[1], c)
                       /\ WholeBuffer(node.outputs[1], c)
                       /\ node.inputs[1].reference = node.outputs[1].reference
                       /\ node.inputs[1].reference # NULL
                       /\ node.inputs[1].reference.id = c.buffer_reference_ptr.id
                       /\ node.inputs[1].reference.frontend_object_creation_time_marker
                            = c.buffer_reference_ptr.object_creation_time
                       /\ (i = Len(dispatched)) =>
                            /\ mgr_calls # <<>>
                            /\ mgr_calls[Len(mgr_calls)].op = "acquire_object"
                            /\ mgr_calls[Len(mgr_calls)].result = node.inputs[1].reference
                       /\ node.command_ptr = c
                       /\ command_ptr # c
                       /\ \A q \in 1..Len(m_command_ring_buffer_ptr.items) :
                            m_command_ring_buffer_ptr.items[q] # c
         ELSE NodesOf(dispatched[i]) = {}

C17_Witness ==
    /\ Len(dispatched) = 2
    /\ Len(frame_graph) = 2
    /\ frame_graph[1].command_ptr.size = 256
    /\ frame_graph[1].outputs[1].size = 256
    /\ frame_graph[2].inputs[1].size = 128
    /\ command_ptr = NULL

(***************************************************************************)
(* C18.  The manager calls of the buffer-data handler.                     *)
(***************************************************************************)
LastDispatched == dispatched[Len(dispatched)]

\* C18: the manager calls made for the buffer-data command dispatched last are
\* three: get_tot_buffer_time_marker and get_tot_memory_block_time_marker, once
\* each, then acquire_object; all three with the id and the creation marker of
\* the command's reference, acquire_object with the two markers the queries
\* returned; a command of another kind makes no manager call; and manager
\* calls are made by no step other than the dispatch of a command.
C18_ManagerCallSequence ==
    /\ [](dispatched # <<>> =>
            IF IsBufferData(LastDispatched)
            THEN /\ Len(mgr_calls) = 3
                 /\ mgr_calls[3].op = "acquire_object"
                 /\ \E b \in 1..2 : \E m \in 1..2 :
                      /\ b # m
                      /\ mgr_calls[b].op = "get_tot_buffer_time_marker"
                      /\ mgr_calls[m].op = "get_tot_memory_block_time_marker"
                      /\ mgr_calls[3].markers = <<mgr_calls[b].result, mgr_calls[m].result>>
                 /\ \A k \in 1..3 :
                      /\ mgr_calls[k].id = LastDispatched.buffer_reference_ptr.id
                      /\ mgr_calls[k].creation_time
                           = LastDispatched.buffer_reference_ptr.object_creation_time
            ELSE mgr_calls = <<>>)
    /\ [](dispatched = <<>> => mgr_calls = <<>>)
    /\ [][mgr_calls' # mgr_calls =>
            /\ Len(dispatched') = Len(dispatched) + 1
            /\ worker_pc = "process"]_vars

C18_Witness ==
    /\ Len(dispatched) = 2
    /\ Len(mgr_calls) = 3
    /\ mgr_calls[1].op = "get_tot_memory_block_time_marker"
    /\ mgr_calls[1].result # NoMarker
    /\ mgr_calls[3].markers = <<mgr_calls[2].result, mgr_calls[1].result>>
    /\ mgr_calls[3].result # NULL

(***************************************************************************)
(* C19.  A buffer-data command without a usable reference is fatal.        *)
(***************************************************************************)
Malformed(c) ==
    /\ IsBufferData(c)
    /\ c.cls # "BufferDataCommand" \/ c.buffer_reference_ptr = NULL

\* C19: once the buffer-data handler was called with an object that is not a
\* BufferDataCommand, or with one whose buffer_reference_ptr is null, the
\* process is in the assertion failure: no manager call was made, the backend
\* manager holds what it held, no node was added, and no command was
\* dispatched after it.
C19_MalformedBufferDataIsFatal ==
    \A i \in 1..Len(dispatched) :
        Malformed(dispatched[i]) =>
            /\ i = Len(dispatched)
            /\ handlers_run[i] = "process_buffer_data_command"
            /\ status = AssertFailed
            /\ WorkerStopped
            /\ mgr_calls = <<>>
            /\ i = 1 => backend = {}
            /\ NodesOf(dispatched[i]) = {}
            /\ Len(frame_graph) <= i - 1

C19_Witness ==
    /\ Len(dispatched) = 1
    /\ dispatched[1].type = "BUFFER_DATA"
    /\ dispatched[1].cls = "BufferSubDataCommand"
    /\ dispatched[1].buffer_reference_ptr # NULL
    /\ status = AssertFailed
    /\ Len(m_command_ring_buffer_ptr.items) = MaxDispatchQueued - 1

(***************************************************************************)
(* C20.  "Not implemented" is not the assertion failure.                   *)
(***************************************************************************)
\* C20: the process is in the not-implemented state exactly when the command
\* dispatched last has a case label other than BUFFER_DATA, and a command
\* without a case label or a malformed buffer-data command leaves it in the
\* assertion failure, which is another state: no dispatch ends in both, and
\* which of the two it ended in tells the missing handler from the broken
\* invariant.
C20_NotImplementedIsNotAssertionFailure ==
    /\ status \in {"running", AssertFailed, NotImplemented}
    /\ ~(status = NotImplemented /\ status = AssertFailed)
    /\ \A i \in 1..Len(dispatched) :
         /\ Unimplemented(dispatched[i]) => status = NotImplemented
         /\ (~HasCaseLabel(dispatched[i]) \/ Malformed(dispatched[i]))
              => status = AssertFailed
    /\ status = NotImplemented => (dispatched # <<>> /\ Unimplemented(LastDispatched))
    /\ status = AssertFailed => (dispatched # <<>> /\ ~Unimplemented(LastDispatched))

C20_Witness ==
    /\ Len(dispatched) = 1
    /\ dispatched[1].type = "CLEAR"
    /\ handlers_run = <<"process_clear_command">>
    /\ status = NotImplemented
    /\ status # AssertFailed

(***************************************************************************)
(* C21.  A command has one owner, and only moves forward.                  *)
(***************************************************************************)
Queued == IF m_command_ring_buffer_ptr = NULL THEN <<>> ELSE m_command_ring_buffer_ptr.items

NodeCommands == [k \in 1..Len(frame_graph) |-> frame_graph[k].command_ptr]

Occurrences(s, c) == Cardinality({i \in 1..Len(s) : s[i] = c})

\* every command a submit has handed over, wherever it went
Accepted == dispatched \o Held \o Queued \o discarded

\* C21: every command a submit has handed over is at exactly one stage: queued,
\* held by the worker, dispatched to a handler, or destroyed with the released
\* ring buffer; so it was dequeued at most once and dispatched at most once.
\* The ring buffer, the worker and the frame graph nodes never hold the same
\* command between them twice, a node holds only a command that was dispatched,
\* and no command is in two nodes.
C21_SingleOwnerMovingForward ==
    /\ \A p \in Producers :
         Len(SelectSeq(Accepted, LAMBDA c : c.thread = p)) = next_seq[p] - 1
    /\ \A i \in 1..Len(Accepted) :
         LET c == Accepted[i]
         IN  /\ Occurrences(Accepted, c) = 1
             /\ Occurrences(dispatched, c) <= 1
             /\ Occurrences(Queued, c) + Occurrences(Held, c)
                  + Occurrences(NodeCommands, c) <= 1
             /\ Occurrences(NodeCommands, c) = 1 => Occurrences(dispatched, c) = 1
    /\ \A k \in 1..Len(NodeCommands) : Occurrences(dispatched, NodeCommands[k]) = 1

\* one command in a node, the next one with the worker, a third one queued
C21_Witness ==
    /\ Len(frame_graph) = 1
    /\ Len(dispatched) = 1
    /\ command_ptr # NULL
    /\ worker_pc = "process"
    /\ Len(Queued) = 1

(***************************************************************************)
(* C22.  The terminating flag is set once and never reset.                 *)
(***************************************************************************)
FlagSet == ~m_terminating /\ m_terminating'

\* C22: the flag is false from the construction until the destructor of the
\* scheduler runs; the step that sets it is the destructor's, taken on a
\* scheduler that has a worker thread; and no step (a submit, a step of the
\* worker loop, a handler, the rest of the destructor) takes it back to false.
C22_TerminatingFlagMonotonic ==
    /\ [](dtor_pc \in {"alive", "destroyed_by_create"} => ~m_terminating)
    /\ [][m_terminating => m_terminating']_vars
    /\ [][FlagSet => /\ dtor_pc = "alive"
                     /\ dtor_pc' = "join"
                     /\ m_scheduler_thread_ptr # NULL]_vars

\* the flag still set after a submit, the worker's last steps and the release
C22_Witness ==
    /\ m_terminating
    /\ late_submit
    /\ worker_pc = "exited"
    /\ dtor_pc = "destroyed"
    /\ Len(frame_graph) >= 1

(***************************************************************************)
(* C23.  != is the negation of ==.                                         *)
(***************************************************************************)
\* C23: for any two payloads, a != b is true exactly when a == b is false: the
\* two operators never both hold and never both fail, whichever of the id, the
\* three creation markers and the two pointers the payloads differ in.
C23_InequalityIsNegatedEquality ==
    (cmp # NULL /\ cmp.done) =>
        /\ cmp.neq <=> ~cmp.eq
        /\ ~(cmp.eq /\ cmp.neq)
        /\ cmp.eq \/ cmp.neq

\* two payloads that differ in the frontend creation marker and in nothing else
\* that is compared: unequal by both operators
C23_Witness ==
    /\ cmp # NULL
    /\ cmp.done
    /\ cmp.neq
    /\ ~cmp.eq
    /\ cmp.a.id = cmp.b.id
    /\ cmp.a.backend_buffer_creation_time_marker
         = cmp.b.backend_buffer_creation_time_marker
    /\ cmp.a.backend_mem_block_creation_time_marker
         = cmp.b.backend_mem_block_creation_time_marker
    /\ cmp.a.memory_block_ptr # cmp.b.memory_block_ptr

====
